---- MODULE Spec2Model ----
\* A model of co::Lexer (src/cobalt/lexer.cpp): the source buffer, the cursor,
\* the semantic value and the token returned by each next_token call.
\* A source is a sequence of one-character strings; offsets are 0-based, so
\* the byte at offset c is source[c + 1] and the end iterator is Len(source).
EXTENDS Integers, Sequences, FiniteSets, TLC

VARIABLES source, cursor, value, history

vars == <<source, cursor, value, history>>

-----------------------------------------------------------------------------
\* Bounds of the model.

\* A source is the concatenation of at most MaxPieces pieces (see Pieces).
MaxPieces == 3

\* next_token is called until it has returned EndOfFile MaxEofCalls times.
MaxEofCalls == 2

-----------------------------------------------------------------------------
\* Character classes of <cctype> in the "C" locale.

Letters ==
    {"a","b","c","d","e","f","g","h","i","j","k","l","m",
     "n","o","p","q","r","s","t","u","v","w","x","y","z",
     "A","B","C","D","E","F","G","H","I","J","K","L","M",
     "N","O","P","Q","R","S","T","U","V","W","X","Y","Z"}

Digits == {"0","1","2","3","4","5","6","7","8","9"}

Whitespace == {" ", "\t", "\n", "\f", "\r"}

isalpha(ch) == ch \in Letters

isdigit(ch) == ch \in Digits

isspace(ch) == ch \in Whitespace

-----------------------------------------------------------------------------
\* The fixed-token table.

\* Each entry pairs a literal (a sequence of bytes) with its TokenType.
basic_tokens ==
    << << <<"\n">>, "EndOfLine" >>,
       << <<"(">>, "ParameterListBegin" >>,
       << <<")">>, "ParameterListEnd" >>,
       << <<"{">>, "FunctionBodyBegin" >>,
       << <<"}">>, "FunctionBodyEnd" >>,
       << <<"[">>, "PropertyBodyBegin" >>,
       << <<"]">>, "PropertyBodyEnd" >>,
       << <<"=">>, "Equal" >>,
       << <<":">>, "TypeConstraintSeparator" >>,
       << <<",">>, "Separator" >> >>

-----------------------------------------------------------------------------
\* Cursor primitives.

\* *_cursor
At(s, c) == s[c + 1]

\* make_view(first, last) / std::string{first, last}: the bytes of [first, last)
make_view(s, first, last) == SubSeq(s, first + 1, last)

\* end of buffer reported one byte early
eof_offByOne(s, c) == c + 1 >= Len(s)

\* eof()
eof(s, c) == c = Len(s)

\* match(std::string_view)
match(s, c, substring) ==
    /\ Len(s) - c >= Len(substring)
    /\ substring = SubSeq(s, c + 1, c + Len(substring))

\* skip_until(stop_condition): stops is the set of offsets at which the stop
\* condition holds
RECURSIVE skip_until(_, _, _)
skip_until(s, c, stops) ==
    IF ~eof(s, c) /\ c \notin stops
    THEN skip_until(s, c + 1, stops)
    ELSE c

\* the offsets where *_cursor == stop_char
CharStops(s, stop_char) == {j \in 0..(Len(s) - 1) : At(s, j) = stop_char}

\* the offsets where match(stop_string)
StringStops(s, stop_string) == {j \in 0..(Len(s) - 1) : match(s, j, stop_string)}

\* skip_until(char) stepping over the stop character as skip_beyond(char) does
skip_until_char_beyond(s, c, stop_char) ==
    LET e == skip_until(s, c, CharStops(s, stop_char))
    IN  IF e # Len(s) THEN e + 1 ELSE e

\* skip_until(char)
skip_until_char(s, c, stop_char) == skip_until(s, c, CharStops(s, stop_char))

\* skip_until(std::string_view)
skip_until_string(s, c, stop_string) == skip_until(s, c, StringStops(s, stop_string))

\* skip(count)
skip(s, c, count) == IF ~eof(s, c) THEN c + count ELSE c

\* skip_beyond(std::string_view) going back to where it started when the stop
\* string is not found
skip_beyond_string_rewindsOnMiss(s, c, stop_string) ==
    LET e == skip_until_string(s, c, stop_string)
    IN  IF eof(s, e) THEN c ELSE skip(s, e, Len(stop_string))

\* skip_beyond(std::string_view) searching from two bytes further on, after
\* the opener
skip_beyond_string_afterOpener(s, c, stop_string) ==
    skip(s, skip_until_string(s, c + 2, stop_string), Len(stop_string))

\* skip_beyond(std::string_view)
skip_beyond_string(s, c, stop_string) ==
    skip(s, skip_until_string(s, c, stop_string), Len(stop_string))

-----------------------------------------------------------------------------
\* Tokens and semantic values.

\* Token{type, std::string_view{start, len}}
Token(type, start, len) == [type |-> type, start |-> start, len |-> len]

\* what a call leaves behind: whether it threw, the token it returned, the
\* cursor and the semantic value after it
Returned(token, c, v) == [thrown |-> FALSE, token |-> token, cursor |-> c, value |-> v]

Thrown(c, v) == [thrown |-> TRUE, token |-> Token("none", c, 0), cursor |-> c, value |-> v]

NoValue == [tag |-> "none"]

StringValue(str) == [tag |-> "string", str |-> str]

IntValue(n) == [tag |-> "int", int |-> n]

FloatValue(mant, scale) == [tag |-> "float", mant |-> mant, scale |-> scale]

-----------------------------------------------------------------------------
\* std::stoll and std::stod on the strings next_token hands them.

DigitOrder == <<"0","1","2","3","4","5","6","7","8","9">>

DigitValue(ch) == (CHOOSE i \in 1..10 : DigitOrder[i] = ch) - 1

\* the value of a digit string in base 10
RECURSIVE Decimal(_)
Decimal(d) ==
    IF d = <<>> THEN 0
    ELSE Decimal(SubSeq(d, 1, Len(d) - 1)) * 10 + DigitValue(d[Len(d)])

RECURSIVE StripLeadingZeros(_)
StripLeadingZeros(d) ==
    IF Len(d) > 1 /\ d[1] = "0" THEN StripLeadingZeros(Tail(d)) ELSE d

RECURSIVE StripTrailingZeros(_)
StripTrailingZeros(d) ==
    IF Len(d) > 0 /\ d[Len(d)] = "0"
    THEN StripTrailingZeros(SubSeq(d, 1, Len(d) - 1))
    ELSE d

\* the digits of LLONG_MAX = 2^63 - 1
LLONG_MAX_DIGITS ==
    <<"9","2","2","3","3","7","2","0","3","6","8","5","4","7","7","5","8","0","7">>

\* d > LLONG_MAX, decided on the digits: std::stoll throws std::out_of_range
OutOfRange(d) ==
    LET t == StripLeadingZeros(d)
        m == LLONG_MAX_DIGITS
    IN  \/ Len(t) > Len(m)
        \/ /\ Len(t) = Len(m)
           /\ \E i \in 1..Len(m) :
                /\ \A k \in 1..(i - 1) : t[k] = m[k]
                /\ DigitValue(t[i]) > DigitValue(m[i])

\* std::stoll with base 0: a leading "0" selects octal
stoll_autoBase(str) ==
    LET RECURSIVE Octal(_)
        Octal(d) ==
            IF d = <<>> THEN 0
            ELSE Octal(SubSeq(d, 1, Len(d) - 1)) * 8 + DigitValue(d[Len(d)])
    IN  IF OutOfRange(str)
        THEN [thrown |-> TRUE, value |-> NoValue]
        ELSE IF Len(str) > 1 /\ str[1] = "0"
             THEN [thrown |-> FALSE, value |-> IntValue(Octal(str))]
             ELSE [thrown |-> FALSE, value |-> IntValue(Decimal(str))]

\* std::stoll on a string of digits
stoll(str) ==
    IF OutOfRange(str)
    THEN [thrown |-> TRUE, value |-> NoValue]
    ELSE [thrown |-> FALSE, value |-> IntValue(Decimal(str))]

\* std::stod on <digits> "." <digits>: the decimal mant / 10^scale, in lowest
\* terms of ten
stod(str) ==
    LET dot == CHOOSE i \in 1..Len(str) : str[i] = "."
        frac == StripTrailingZeros(SubSeq(str, dot + 1, Len(str)))
    IN  FloatValue(Decimal(SubSeq(str, 1, dot - 1) \o frac), Len(frac))

-----------------------------------------------------------------------------
\* The classifiers of next_token.

\* try_tokenize skipping one byte more than the literal
try_tokenize_skipsOneMore(s, c, name, type) ==
    IF match(s, c, name)
    THEN [matched |-> TRUE,
          token |-> Token(type, c, Len(name)),
          cursor |-> skip(s, c, Len(name) + 1)]
    ELSE [matched |-> FALSE, token |-> Token("none", c, 0), cursor |-> c]

\* try_tokenize(name, type)
try_tokenize(s, c, name, type) ==
    IF match(s, c, name)
    THEN [matched |-> TRUE,
          token |-> Token(type, c, Len(name)),
          cursor |-> skip(s, c, Len(name))]
    ELSE [matched |-> FALSE, token |-> Token("none", c, 0), cursor |-> c]

\* for (auto& t : basic_tokens): the first entry, from the i-th on, that
\* try_tokenize accepts
RECURSIVE try_basic_tokens(_, _, _)
try_basic_tokens(s, c, i) ==
    IF i > Len(basic_tokens)
    THEN [matched |-> FALSE, token |-> Token("none", c, 0), cursor |-> c]
    ELSE LET r == try_tokenize(s, c, basic_tokens[i][1], basic_tokens[i][2])
         IN  IF r.matched THEN r ELSE try_basic_tokens(s, c, i + 1)

is_first_identifier_char(ch) == isalpha(ch)

\* identifier characters without the digits
is_identifier_char_lettersOnly(ch) == is_first_identifier_char(ch)

is_identifier_char(ch) == is_first_identifier_char(ch) \/ isdigit(ch)

\* reserved words compared as prefixes of the view
reserved_word_byPrefix(view) ==
    LET starts(w) == Len(view) >= Len(w) /\ SubSeq(view, 1, Len(w)) = w
    IN  IF starts(<<"r","e","t","u","r","n">>) THEN "Return"
        ELSE IF starts(<<"b","r","e","a","k">>) THEN "Break"
        ELSE IF starts(<<"c","o","n","t","i","n","u","e">>) THEN "Continue"
        ELSE "Identifier"

\* the comparisons of the identifier's view with the reserved words
reserved_word(view) ==
    IF view = <<"r","e","t","u","r","n">> THEN "Return"
    ELSE IF view = <<"b","r","e","a","k">> THEN "Break"
    ELSE IF view = <<"c","o","n","t","i","n","u","e">> THEN "Continue"
    ELSE "Identifier"

\* the identifier branch publishing the value before the reserved-word checks
tokenize_identifier_valueFirst(s, token_begin, v) ==
    LET c == skip_until(s, token_begin,
                        {j \in 0..(Len(s) - 1) : ~is_identifier_char(At(s, j))})
        view == make_view(s, token_begin, c)
    IN  Returned(Token(reserved_word(view), token_begin, Len(view)), c, StringValue(view))

\* the branch of next_token taken at a letter
tokenize_identifier(s, token_begin, v) ==
    LET c == skip_until(s, token_begin,
                        {j \in 0..(Len(s) - 1) : ~is_identifier_char(At(s, j))})
        view == make_view(s, token_begin, c)
        type == reserved_word(view)
    IN  IF type # "Identifier"
        THEN Returned(Token(type, token_begin, Len(view)), c, v)
        ELSE Returned(Token("Identifier", token_begin, Len(view)), c, StringValue(view))

\* the numeric branch taking the float's view before the fraction is skipped
tokenize_number_viewBeforeFraction(s, token_begin, v) ==
    LET nondigits == {j \in 0..(Len(s) - 1) : ~isdigit(At(s, j))}
        c == skip_until(s, token_begin, nondigits)
    IN  IF match(s, c, <<".">>)
        THEN LET c1 == skip(s, c, 1)
                 c2 == skip_until(s, c1, nondigits)
             IN  Returned(Token("LiteralFloat", token_begin, c1 - token_begin), c2,
                          stod(make_view(s, token_begin, c2)))
        ELSE LET n == stoll(make_view(s, token_begin, c))
             IN  IF n.thrown
                 THEN Thrown(c, v)
                 ELSE Returned(Token("LiteralInt", token_begin, c - token_begin), c,
                               n.value)

\* the numeric branch taking '.' as a separator only when a digit follows it
tokenize_number_needsFraction(s, token_begin, v) ==
    LET nondigits == {j \in 0..(Len(s) - 1) : ~isdigit(At(s, j))}
        c == skip_until(s, token_begin, nondigits)
    IN  IF match(s, c, <<".">>) /\ c + 1 < Len(s) /\ isdigit(At(s, c + 1))
        THEN LET c2 == skip_until(s, skip(s, c, 1), nondigits)
             IN  Returned(Token("LiteralFloat", token_begin, c2 - token_begin), c2,
                          stod(make_view(s, token_begin, c2)))
        ELSE LET n == stoll(make_view(s, token_begin, c))
             IN  IF n.thrown
                 THEN Thrown(c, v)
                 ELSE Returned(Token("LiteralInt", token_begin, c - token_begin), c,
                               n.value)

\* the branch of next_token taken at a digit
tokenize_number(s, token_begin, v) ==
    LET nondigits == {j \in 0..(Len(s) - 1) : ~isdigit(At(s, j))}
        c == skip_until(s, token_begin, nondigits)
    IN  IF match(s, c, <<".">>)
        THEN LET c2 == skip_until(s, skip(s, c, 1), nondigits)
             IN  Returned(Token("LiteralFloat", token_begin, c2 - token_begin), c2,
                          stod(make_view(s, token_begin, c2)))
        ELSE LET n == stoll(make_view(s, token_begin, c))
             IN  IF n.thrown
                 THEN Thrown(c, v)
                 ELSE Returned(Token("LiteralInt", token_begin, c - token_begin), c,
                               n.value)

\* the Unexpected token built with a pre-increment, {++_cursor, 1}
unexpected_token_preIncrement(s, c, v) == Returned(Token("Unexpected", c + 1, 1), c + 1, v)

\* the Unexpected token returned without the post-increment
unexpected_token_noAdvance(s, c, v) == Returned(Token("Unexpected", c, 1), c, v)

\* return {TokenType::Unexpected, {_cursor++, 1}}
unexpected_token(s, c, v) == Returned(Token("Unexpected", c, 1), c + 1, v)

\* return {TokenType::EndOfFile, {_cursor, 1}}
end_of_file_token(s, c, v) == Returned(Token("EndOfFile", c, 1), c, v)

\* the cursor after the whitespace skip and the one comment check
skip_insignificant(s, c) ==
    LET c1 == skip_until(s, c, {j \in 0..(Len(s) - 1) : ~isspace(At(s, j))})
    IN  IF match(s, c1, <<"/", "/">>)
        THEN skip_until_char(s, c1, "\n")
        ELSE IF match(s, c1, <<"/", "*">>)
             THEN skip_beyond_string(s, c1, <<"*", "/">>)
             ELSE c1

\* Lexer::next_token on the lexer state (s, c, v)
next_token(s, c, v) ==
    LET token_begin == skip_insignificant(s, c)
    IN  IF eof(s, token_begin)
        THEN end_of_file_token(s, token_begin, v)
        ELSE LET basic == try_basic_tokens(s, token_begin, 1)
             IN  IF basic.matched
                 THEN Returned(basic.token, basic.cursor, v)
                 ELSE IF is_first_identifier_char(At(s, token_begin))
                      THEN tokenize_identifier(s, token_begin, v)
                      ELSE IF isdigit(At(s, token_begin))
                           THEN tokenize_number(s, token_begin, v)
                           ELSE unexpected_token(s, token_begin, v)

-----------------------------------------------------------------------------
\* The offsets of the source buffer that a next_token call reads.

\* match(std::string_view) comparing without the check of the remaining length
match_reads_noLengthCheck(s, c, substring) == c..(c + Len(substring) - 1)

\* match(std::string_view): the comparison reads Len(substring) bytes at the
\* cursor, and only when that many remain
match_reads(s, c, substring) ==
    IF Len(s) - c >= Len(substring)
    THEN c..(c + Len(substring) - 1)
    ELSE {}

\* skip_until from c to e: the offsets at which the loop evaluates its stop
\* condition, which it does only after !eof()
skip_until_evaluated(s, c, e) == {k \in c..e : ~eof(s, k)}

\* the reads of the fixed-token loop at token_begin: one match per entry up
\* to the first that matches
try_basic_tokens_reads(s, token_begin) ==
    LET hits == {n \in 1..Len(basic_tokens) : match(s, token_begin, basic_tokens[n][1])}
        tried == {n \in 1..Len(basic_tokens) : \A h \in hits : n <= h}
    IN  UNION {match_reads(s, token_begin, basic_tokens[n][1]) : n \in tried}

\* the reads of the identifier branch: *_cursor, then the stop condition at
\* each offset of the skip
tokenize_identifier_reads(s, token_begin) ==
    {token_begin} \cup
    skip_until_evaluated(s, token_begin, tokenize_identifier(s, token_begin, NoValue).cursor)

\* the reads of the numeric branch: *_cursor, the digit skip, match("."), the
\* fraction's digit skip and the copy of [token_begin, _cursor)
tokenize_number_reads(s, token_begin) ==
    LET nondigits == {j \in 0..(Len(s) - 1) : ~isdigit(At(s, j))}
        c == skip_until(s, token_begin, nondigits)
        c1 == skip(s, c, 1)
        c2 == IF match(s, c, <<".">>) THEN skip_until(s, c1, nondigits) ELSE c
    IN  {token_begin} \cup skip_until_evaluated(s, token_begin, c)
            \cup match_reads(s, c, <<".">>)
            \cup (IF match(s, c, <<".">>) THEN skip_until_evaluated(s, c1, c2) ELSE {})
            \cup token_begin..(c2 - 1)

\* the reads of the whitespace skip and of the comment check
skip_insignificant_reads(s, c) ==
    LET c1 == skip_until(s, c, {j \in 0..(Len(s) - 1) : ~isspace(At(s, j))})
    IN  skip_until_evaluated(s, c, c1) \cup match_reads(s, c1, <<"/", "/">>) \cup
        IF match(s, c1, <<"/", "/">>)
        THEN skip_until_evaluated(s, c1, skip_until_char(s, c1, "\n"))
        ELSE match_reads(s, c1, <<"/", "*">>) \cup
             IF match(s, c1, <<"/", "*">>)
             THEN UNION {match_reads(s, k, <<"*", "/">>) :
                            k \in skip_until_evaluated(s, c1,
                                      skip_until_string(s, c1, <<"*", "/">>))}
             ELSE {}

\* the offsets a next_token call reads on the lexer state (s, c)
next_token_reads(s, c) ==
    LET token_begin == skip_insignificant(s, c)
    IN  skip_insignificant_reads(s, c) \cup
        IF eof(s, token_begin)
        THEN {}
        ELSE try_basic_tokens_reads(s, token_begin) \cup
             IF try_basic_tokens(s, token_begin, 1).matched
             THEN {}
             ELSE IF is_first_identifier_char(At(s, token_begin))
                  THEN tokenize_identifier_reads(s, token_begin)
                  ELSE {token_begin} \cup
                       IF isdigit(At(s, token_begin))
                       THEN tokenize_number_reads(s, token_begin)
                       ELSE {}

-----------------------------------------------------------------------------
\* The sources the lexer is built on.

Pieces ==
    { <<" ">>, <<"\n">>, <<"/">>, <<"*">>, <<"a">>, <<"0">>, <<"1">>, <<".">>,
      <<"(">>,
      <<"#">>, <<"/", "*">>, <<"*", "/">>, <<"/", "/">>,
      <<"/", "*", "*", "/">>, <<"r","e","t","u","r","n">> }

\* the concatenations of at most n pieces
RECURSIVE Concatenations(_)
Concatenations(n) ==
    IF n = 0 THEN {<<>>}
    ELSE LET shorter == Concatenations(n - 1)
         IN  shorter \cup {p \o q : p \in shorter, q \in Pieces}

\* the fixed-token literals alone, and sources longer than MaxPieces pieces
ExtraSources ==
    {basic_tokens[i][1] : i \in 1..Len(basic_tokens)} \cup
    { <<"/","*"," ","a"," ","*","/"," ","4","2">>,
      <<"/","*","a","*","/","\t","\n","x">>,
      <<"1","\n","2">>,
      <<"a"," ","\n","\t","(","\n">>,
      <<"/","/"," ","c","\n","4","2">>,
      <<"/","*"," ","a"," ","*">>,
      <<"/","*","a","*","/","/","*","b","*","/","x">>,
      <<"/","*","/","x">>,
      <<"r","e","t","u","r","n","x">>,
      <<"b","r","e","a","k">>,
      <<"b","r","e","a","k","1">>,
      <<"x"," ","r","e","t","u","r","n"," ","r","e","t","u","r","n","x"," ","b","r","e","a","k","1">>,
      <<"c","o","n","t","i","n","u","e">>,
      <<"c","o","n","t","i","n","u","e","s">>,
      <<"x"," ","c","o","n","t","i","n","u","e"," ","y","2"," ","b","r","e","a","k">>,
      <<"R","e","t","u","r","n">>,
      <<"Z","q","9","_">>,
      <<"0","4","2">>,
      <<"3",".">>,
      <<"3",".","5","0">>,
      <<"1",".","2",".","3">>,
      <<"x","1"," ","2","."," ","3",".","5","(","#","\n","y">>,
      <<"7"," ","=","x",":","y",",","[","]","{","}",")">>,
      <<"9","2","2","3","3","7","2","0","3","6","8","5","4","7","7","5","8","0","8">>,
      <<"a"," ","9","2","2","3","3","7","2","0","3","6","8","5","4","7","7","5","8","0","8",
        "\n","b">> }

Sources == Concatenations(MaxPieces) \cup ExtraSources

-----------------------------------------------------------------------------
\* The state machine: a lexer built on one source, and its next_token calls.

\* one entry per next_token call: the token, the cursor before and after the
\* call, and the semantic value after it
Call(r, before) ==
    [thrown |-> r.thrown, type |-> r.token.type, start |-> r.token.start,
     len |-> r.token.len, before |-> before, after |-> r.cursor, value |-> r.value]

EofCalls == Cardinality({i \in 1..Len(history) : history[i].type = "EndOfFile"})

\* Lexer::Lexer(source)
Init ==
    /\ source \in Sources
    /\ cursor = 0
    /\ value = NoValue
    /\ history = <<>>

\* a next_token call that returns its token
NextTokenReturns ==
    /\ EofCalls < MaxEofCalls
    /\ LET r == next_token(source, cursor, value)
       IN  /\ ~r.thrown
           /\ cursor' = r.cursor
           /\ value' = r.value
           /\ history' = Append(history, Call(r, cursor))
    /\ UNCHANGED source

\* a next_token call that std::stoll leaves by throwing std::out_of_range
NextTokenThrows ==
    /\ EofCalls < MaxEofCalls
    /\ LET r == next_token(source, cursor, value)
       IN  /\ r.thrown
           /\ cursor' = r.cursor
           /\ value' = r.value
           /\ history' = Append(history, Call(r, cursor))
    /\ UNCHANGED source

Next == NextTokenReturns \/ NextTokenThrows

Spec == Init /\ [][Next]_vars

-----------------------------------------------------------------------------
\* Vocabulary of the properties.

\* the calls that returned a token other than EndOfFile
TokenCalls ==
    {i \in 1..Len(history) : ~history[i].thrown /\ history[i].type # "EndOfFile"}

\* the bytes of the span of call i's token
SpanText(i) == SubSeq(source, history[i].start + 1, history[i].start + history[i].len)

\* the semantic value before call i
ValueBefore(i) == IF i = 1 THEN NoValue ELSE history[i - 1].value

\* the end of the maximal run of bytes of class starting at offset p
RunEnd(s, p, class) ==
    CHOOSE e \in p..Len(s) :
        /\ \A k \in p..(e - 1) : s[k + 1] \in class
        /\ e = Len(s) \/ s[e + 1] \notin class

\* the source is a block comment closed by the first "*/" after its opener,
\* then whitespace up to offset w, then a byte that is not whitespace
CommentSpaceToken(s, w) ==
    /\ match(s, 0, <<"/", "*">>)
    /\ \E q \in 2..(w - 3) :
          /\ match(s, q, <<"*", "/">>)
          /\ \A k \in 1..(q - 1) : ~match(s, k, <<"*", "/">>)
          /\ \A k \in (q + 2)..(w - 1) : isspace(At(s, k))
    /\ w < Len(s)
    /\ ~isspace(At(s, w))

-----------------------------------------------------------------------------
\* C1: when the source is a terminated block comment, then one or more
\* whitespace bytes, then a token T, the first next_token call returns T (the
\* token lexed at the first byte after the whitespace), not a token for the
\* whitespace.
C1_TokenAfterCommentAndSpace ==
    \A w \in 0..Len(source) :
        (Len(history) >= 1 /\ CommentSpaceToken(source, w)) =>
            LET T == next_token(source, w, NoValue).token
            IN  /\ ~history[1].thrown
                /\ history[1].type = T.type
                /\ history[1].start = T.start
                /\ history[1].len = T.len

\* C2: in a source without comments, once EndOfFile has been returned every
\* '\n' byte has been returned as an EndOfLine token spanning it, and no token
\* starts at any other whitespace byte.
C2_NewlineNeverSwallowed ==
    ("/" \notin {source[k] : k \in 1..Len(source)} /\ EofCalls >= 1) =>
        \A p \in 0..(Len(source) - 1) :
            /\ At(source, p) = "\n" =>
                 \E i \in TokenCalls :
                     /\ history[i].type = "EndOfLine"
                     /\ history[i].start = p
                     /\ history[i].len = 1
            /\ (isspace(At(source, p)) /\ At(source, p) # "\n") =>
                 \A i \in TokenCalls : history[i].start # p

\* C3: on a source that is exactly one literal of the fixed-token table, the
\* first call returns the token of the paired kind spanning the whole input
\* and the second call returns EndOfFile.
C3_FixedTokenAlone ==
    \A n \in 1..Len(basic_tokens) :
        source = basic_tokens[n][1] =>
            /\ Len(history) >= 1 =>
                 /\ ~history[1].thrown
                 /\ history[1].type = basic_tokens[n][2]
                 /\ history[1].start = 0
                 /\ history[1].len = Len(source)
            /\ Len(history) >= 2 =>
                 /\ ~history[2].thrown
                 /\ history[2].type = "EndOfFile"

\* C4: every call that returns a token other than EndOfFile strictly advances
\* the cursor, at most Len(source) such tokens are returned, and EndOfFile is
\* returned within Len(source) + 1 calls.
C4_ForwardProgress ==
    /\ \A i \in TokenCalls : history[i].after > history[i].before
    /\ Cardinality(TokenCalls) <= Len(source)
    /\ Len(history) > Len(source) =>
         \E i \in 1..(Len(source) + 1) : history[i].type = "EndOfFile"

\* several tokens, an Unexpected one among them, have been returned before
\* EndOfFile
C4_Witness ==
    /\ EofCalls >= 1
    /\ Cardinality(TokenCalls) >= 3
    /\ \E i \in TokenCalls : history[i].type = "Unexpected"

\* C5: a call that returns EndOfFile leaves the cursor at the end of the
\* source, and every later call returns EndOfFile again, at the same span
\* position and without moving the cursor.
C5_EndOfFileTerminal ==
    \A i \in 1..Len(history) :
        history[i].type = "EndOfFile" =>
            /\ history[i].after = Len(source)
            /\ history[i].start = Len(source)
            /\ \A j \in (i + 1)..Len(history) :
                  /\ ~history[j].thrown
                  /\ history[j].type = "EndOfFile"
                  /\ history[j].start = history[i].start
                  /\ history[j].before = history[i].after
                  /\ history[j].after = history[j].before
            /\ i = Len(history) => cursor = Len(source)

\* EndOfFile has been returned twice, after at least one other token
C5_Witness ==
    /\ Len(history) >= 3
    /\ history[1].type # "EndOfFile"
    /\ history[Len(history) - 1].type = "EndOfFile"
    /\ history[Len(history)].type = "EndOfFile"

\* C6: the cursor is always an offset into the source, 0 <= cursor <=
\* Len(source), and no call, returning or throwing, decreases it or leaves it
\* beyond the end of the buffer.
C6_CursorInBounds ==
    /\ 0 <= cursor
    /\ cursor <= Len(source)
    /\ \A i \in 1..Len(history) :
          /\ 0 <= history[i].before
          /\ history[i].before <= history[i].after
          /\ history[i].after <= Len(source)
          /\ i > 1 => history[i].before = history[i - 1].after
          /\ i = Len(history) => history[i].after = cursor

\* a source that ends inside a block comment, in a partial closer or in a
\* '.' has been lexed up to EndOfFile, with the cursor moved to the end
C6_Witness ==
    /\ EofCalls >= 1
    /\ Len(source) >= 2
    /\ cursor = Len(source)
    /\ \/ /\ match(source, 0, <<"/", "*">>)
          /\ history[1].type = "EndOfFile"
          /\ source[Len(source)] = "*"
       \/ /\ source[Len(source)] = "."
          /\ history[Len(history) - 1].type = "LiteralFloat"

\* C7: every returned token other than EndOfFile has a non-empty span that
\* ends at the cursor left by its call and starts at or after the cursor the
\* call began with; the spans of successive tokens do not overlap and their
\* start offsets strictly increase.
C7_SpansDisjointAndIncreasing ==
    /\ \A i \in TokenCalls :
          /\ history[i].len >= 1
          /\ history[i].start + history[i].len = history[i].after
          /\ history[i].start >= history[i].before
    /\ \A i \in TokenCalls : \A j \in TokenCalls :
          i < j =>
              /\ history[i].start < history[j].start
              /\ history[i].start + history[i].len <= history[j].start

\* three tokens have been returned, one of them a LiteralFloat and one of
\* them after skipped bytes
C7_Witness ==
    /\ Cardinality(TokenCalls) >= 3
    /\ \E i \in TokenCalls : history[i].type = "LiteralFloat" /\ history[i].len >= 2
    /\ \E i \in TokenCalls : history[i].start > history[i].before

ValueKinds == {"Identifier", "LiteralInt", "LiteralFloat"}

ReservedWords ==
    { <<"r","e","t","u","r","n">>, <<"b","r","e","a","k">>,
      <<"c","o","n","t","i","n","u","e">> }

\* the cursor of call i after its whitespace and comment skipping
SkippedTo(i) == skip_insignificant(source, history[i].before)

\* call i found a letter at the cursor after skipping
AtLetter(i) == SkippedTo(i) < Len(source) /\ isalpha(At(source, SkippedTo(i)))

\* the maximal run of letters and digits at the cursor of call i after skipping
IdentifierRun(i) ==
    SubSeq(source, SkippedTo(i) + 1, RunEnd(source, SkippedTo(i), Letters \cup Digits))

\* C9: a call whose cursor after skipping is at a letter returns a token
\* whose span is the maximal run of letters and digits starting there and
\* leaves the cursor at the end of the run; unless the run is "return",
\* "break" or "continue", the kind is Identifier and the semantic value is
\* the string of the run.
C9_IdentifierMaximalRun ==
    \A i \in 1..Len(history) :
        AtLetter(i) =>
            /\ ~history[i].thrown
            /\ history[i].start = SkippedTo(i)
            /\ history[i].len = Len(IdentifierRun(i))
            /\ history[i].after = SkippedTo(i) + Len(IdentifierRun(i))
            /\ SpanText(i) = IdentifierRun(i)
            /\ IdentifierRun(i) \notin ReservedWords =>
                  /\ history[i].type = "Identifier"
                  /\ history[i].value = StringValue(IdentifierRun(i))

\* an Identifier of letters and digits has been returned after skipped bytes,
\* with a byte that ends the run after it
C9_Witness ==
    \E i \in 1..Len(history) :
        /\ history[i].type = "Identifier"
        /\ history[i].start > history[i].before
        /\ history[i].after < Len(source)
        /\ \E k \in 1..Len(SpanText(i)) : isdigit(SpanText(i)[k])
        /\ value = StringValue(SpanText(i))

\* view starts with a reserved word and is longer than it
ExtendsReservedWord(view) ==
    \E w \in ReservedWords : Len(view) > Len(w) /\ SubSeq(view, 1, Len(w)) = w

\* C10: a call whose maximal identifier run is exactly "return", "break" or
\* "continue" returns Return, Break or Continue and leaves the semantic value
\* as it was; a longer run that starts with a reserved word is an Identifier.
C10_ReservedWordsExact ==
    \A i \in 1..Len(history) :
        AtLetter(i) =>
            /\ IdentifierRun(i) = <<"r","e","t","u","r","n">> =>
                  history[i].type = "Return" /\ history[i].value = ValueBefore(i)
            /\ IdentifierRun(i) = <<"b","r","e","a","k">> =>
                  history[i].type = "Break" /\ history[i].value = ValueBefore(i)
            /\ IdentifierRun(i) = <<"c","o","n","t","i","n","u","e">> =>
                  history[i].type = "Continue" /\ history[i].value = ValueBefore(i)
            /\ ExtendsReservedWord(IdentifierRun(i)) =>
                  history[i].type = "Identifier"

\* a reserved word has been returned after an Identifier whose value is still
\* in place, and a later run that extends a reserved word as an Identifier
C10_Witness ==
    \E i \in 2..Len(history) : \E j \in 1..Len(history) :
        /\ history[i].type \in {"Return", "Break", "Continue"}
        /\ history[i - 1].type = "Identifier"
        /\ history[i].value = history[i - 1].value
        /\ history[j].type = "Identifier"
        /\ ExtendsReservedWord(SpanText(j))

\* call i found a digit at the cursor after skipping
AtDigit(i) == SkippedTo(i) < Len(source) /\ isdigit(At(source, SkippedTo(i)))

\* the end of the maximal digit run at the cursor of call i after skipping
DigitRunEnd(i) == RunEnd(source, SkippedTo(i), Digits)

\* the maximal digit run at the cursor of call i after skipping
DigitRun(i) == SubSeq(source, SkippedTo(i) + 1, DigitRunEnd(i))

\* the byte after that digit run is '.'
DotFollows(i) == DigitRunEnd(i) < Len(source) /\ At(source, DigitRunEnd(i)) = "."

\* 10^n
RECURSIVE Pow10(_)
Pow10(n) == IF n = 0 THEN 1 ELSE 10 * Pow10(n - 1)

\* the number a digit string denotes in base 10: the sum of its digits, each
\* weighted by the power of ten of its position, from position k on
RECURSIVE PositionalValue(_, _)
PositionalValue(d, k) ==
    IF k > Len(d) THEN 0
    ELSE DigitValue(d[k]) * Pow10(Len(d) - k) + PositionalValue(d, k + 1)

\* the digit strings of at most 18 significant digits, which all fit a signed
\* 64-bit integer
FitsInt64(d) ==
    \E z \in 0..Len(d) :
        /\ \A k \in 1..z : d[k] = "0"
        /\ Len(d) - z <= 18

\* C11: a call whose cursor after skipping is at a digit, with no '.' after
\* the maximal digit run there, returns LiteralInt spanning exactly that run
\* and publishes the base-10 value of the run (leading zeros do not count),
\* whenever that value fits the integer width.
C11_LiteralIntValue ==
    \A i \in 1..Len(history) :
        (AtDigit(i) /\ ~DotFollows(i) /\ FitsInt64(DigitRun(i))) =>
            /\ ~history[i].thrown
            /\ history[i].type = "LiteralInt"
            /\ history[i].start = SkippedTo(i)
            /\ history[i].len = Len(DigitRun(i))
            /\ history[i].after = DigitRunEnd(i)
            /\ history[i].value = IntValue(PositionalValue(DigitRun(i), 1))

\* a LiteralInt with a leading zero has been returned with the value of its
\* other digits
C11_Witness ==
    \E i \in 1..Len(history) :
        /\ history[i].type = "LiteralInt"
        /\ history[i].len >= 3
        /\ SpanText(i)[1] = "0"
        /\ history[i].value.int >= 10
        /\ value = history[i].value

FixedTokenStarts == {basic_tokens[n][1][1] : n \in 1..Len(basic_tokens)}

\* call i found, at the cursor after skipping, a byte that starts no fixed
\* token and is neither a letter nor a digit
AtUnrecognised(i) ==
    /\ SkippedTo(i) < Len(source)
    /\ At(source, SkippedTo(i)) \notin FixedTokenStarts \cup Letters \cup Digits

\* C13: a call whose cursor after skipping is inside the buffer at a byte
\* that starts no fixed-token literal and is neither a letter nor a digit
\* returns Unexpected spanning exactly that byte and leaves the cursor exactly
\* one byte after it.
C13_UnexpectedOneByte ==
    \A i \in 1..Len(history) :
        AtUnrecognised(i) =>
            /\ ~history[i].thrown
            /\ history[i].type = "Unexpected"
            /\ history[i].start = SkippedTo(i)
            /\ history[i].len = 1
            /\ history[i].after = SkippedTo(i) + 1

\* an Unexpected has been returned for a byte reached after skipping, with
\* more of the source after it
C13_Witness ==
    \E i \in 1..Len(history) :
        /\ history[i].type = "Unexpected"
        /\ history[i].start > history[i].before
        /\ history[i].after = history[i].start + 1
        /\ history[i].after < Len(source)

\* C14: next_token is total: every call returns a token, none fails, also
\* when the digit run at the cursor exceeds the signed 64-bit range.
C14_NextTokenTotal ==
    \A i \in 1..Len(history) : ~history[i].thrown

\* the source is two terminated block comments, the second opening right
\* after the first closes, followed at offset w by a byte that is neither
\* whitespace nor the opener of another comment
TwoCommentsThenToken(s, w) ==
    /\ match(s, 0, <<"/", "*">>)
    /\ \E q1 \in 2..(w - 6) :
          /\ match(s, q1, <<"*", "/">>)
          /\ \A k \in 1..(q1 - 1) : ~match(s, k, <<"*", "/">>)
          /\ match(s, q1 + 2, <<"/", "*">>)
          /\ match(s, w - 2, <<"*", "/">>)
          /\ \A k \in (q1 + 3)..(w - 3) : ~match(s, k, <<"*", "/">>)
    /\ w < Len(s)
    /\ ~isspace(At(s, w))
    /\ ~match(s, w, <<"/", "*">>)
    /\ ~match(s, w, <<"/", "/">>)

\* C15: when the source is two adjacent terminated block comments followed
\* by a token T, the first next_token call returns T; no token starts inside
\* the comments.
C15_AdjacentCommentsSkipped ==
    \A w \in 0..Len(source) :
        (Len(history) >= 1 /\ TwoCommentsThenToken(source, w)) =>
            LET T == next_token(source, w, NoValue).token
            IN  /\ ~history[1].thrown
                /\ history[1].type = T.type
                /\ history[1].start = w
                /\ history[1].len = T.len
                /\ \A i \in TokenCalls : history[i].start >= w

\* the cursor of call i after its whitespace skip: the end of the maximal run
\* of whitespace at the cursor the call began with
WhitespaceEnd(i) == RunEnd(source, history[i].before, Whitespace)

\* the offsets of the '\n' bytes at or after the cursor of call i after its
\* whitespace skip
NewlinesAhead(i) == {p \in WhitespaceEnd(i)..(Len(source) - 1) : source[p + 1] = "\n"}

\* the offsets at or after the cursor of call i after its whitespace skip at
\* which "*/" stands
ClosersAhead(i) ==
    {q \in WhitespaceEnd(i)..(Len(source) - 2) : source[q + 1] = "*" /\ source[q + 2] = "/"}

\* the least element of a non-empty set of offsets
Least(S) == CHOOSE p \in S : \A q \in S : p <= q

\* call i found "//" at the cursor after its whitespace skip
AtLineComment(i) ==
    /\ WhitespaceEnd(i) + 2 <= Len(source)
    /\ source[WhitespaceEnd(i) + 1] = "/"
    /\ source[WhitespaceEnd(i) + 2] = "/"

\* call i found "/*" at the cursor after its whitespace skip
AtBlockComment(i) ==
    /\ WhitespaceEnd(i) + 2 <= Len(source)
    /\ source[WhitespaceEnd(i) + 1] = "/"
    /\ source[WhitespaceEnd(i) + 2] = "*"

\* C16: a call that finds "//" after its whitespace skip consumes the bytes
\* up to, not including, the next '\n' and returns that '\n' as EndOfLine; with
\* no '\n' left it moves the cursor to the end and returns EndOfFile. So
\* "// c\n42" yields EndOfLine, LiteralInt 42, EndOfFile.
C16_LineComment ==
    /\ \A i \in 1..Len(history) :
          AtLineComment(i) =>
              /\ ~history[i].thrown
              /\ NewlinesAhead(i) = {} =>
                    /\ history[i].type = "EndOfFile"
                    /\ history[i].start = Len(source)
                    /\ history[i].after = Len(source)
              /\ NewlinesAhead(i) # {} =>
                    /\ history[i].type = "EndOfLine"
                    /\ history[i].start = Least(NewlinesAhead(i))
                    /\ history[i].len = 1
                    /\ history[i].after = Least(NewlinesAhead(i)) + 1
    /\ (source = <<"/","/"," ","c","\n","4","2">> /\ Len(history) >= 3) =>
          /\ history[1].type = "EndOfLine"
          /\ history[2].type = "LiteralInt" /\ history[2].value = IntValue(42)
          /\ history[3].type = "EndOfFile"

\* the '\n' that ends a line comment has been returned as EndOfLine, and the
\* token after it
C16_Witness ==
    /\ Len(history) >= 2
    /\ AtLineComment(1)
    /\ history[1].type = "EndOfLine"
    /\ history[1].start >= 3
    /\ history[2].type \in {"LiteralInt", "Identifier"}

\* C17: a call that finds "/*" after its whitespace skip, with no "*/" from
\* there to the end of the buffer, moves the cursor to the end and returns
\* EndOfFile; no token is returned for the opener or the bytes after it, and
\* every later call returns EndOfFile.
C17_UnterminatedBlockComment ==
    \A i \in 1..Len(history) :
        (AtBlockComment(i) /\ ClosersAhead(i) = {}) =>
            /\ ~history[i].thrown
            /\ history[i].type = "EndOfFile"
            /\ history[i].start = Len(source)
            /\ history[i].after = Len(source)
            /\ \A j \in i..Len(history) : history[j].type = "EndOfFile"
            /\ \A j \in TokenCalls : history[j].start < WhitespaceEnd(i)

\* an unterminated block comment with bytes after its opener has been lexed,
\* after an earlier token, and EndOfFile returned twice
C17_Witness ==
    \E i \in 2..Len(history) :
        /\ AtBlockComment(i)
        /\ ClosersAhead(i) = {}
        /\ WhitespaceEnd(i) + 2 < Len(source)
        /\ history[i].type = "EndOfFile"
        /\ Len(history) > i

\* C19: a call that finds "/*" after its whitespace skip, with a "*/" at or
\* after the opener's offset, resumes right after the first such "*/": the
\* token it returns starts there. The opener's '*' may be the closer's '*', so
\* "/*/" is a whole comment and "/*/x" yields Identifier "x" at offset 3.
C19_CloserSearchFromOpener ==
    /\ \A i \in 1..Len(history) :
          (AtBlockComment(i) /\ ClosersAhead(i) # {}) =>
              /\ history[i].after >= Least(ClosersAhead(i)) + 2
              /\ ~history[i].thrown => history[i].start = Least(ClosersAhead(i)) + 2
              /\ (~history[i].thrown /\ WhitespaceEnd(i) + 1 \in ClosersAhead(i)) =>
                    history[i].start = WhitespaceEnd(i) + 3
    /\ (source = <<"/","*","/","x">> /\ Len(history) >= 1) =>
          /\ history[1].type = "Identifier"
          /\ history[1].start = 3
          /\ history[1].len = 1
          /\ history[1].value = StringValue(<<"x">>)

\* "/*/" has been skipped as a whole comment and the token after it returned
C19_Witness ==
    \E i \in 1..Len(history) :
        /\ AtBlockComment(i)
        /\ WhitespaceEnd(i) + 1 \in ClosersAhead(i)
        /\ history[i].type = "Identifier"
        /\ history[i].start = WhitespaceEnd(i) + 3
        /\ cursor = history[i].start + history[i].len

\* the offsets call i read
ReadsOf(i) == next_token_reads(source, history[i].before)

\* C18: no call reads the source at an offset at or beyond Len(source), on
\* any source, the empty one included: the cursor is dereferenced only after
\* an end-of-buffer check, and match compares only when the literal's length
\* remains.
C18_NoReadPastEnd ==
    \A i \in 1..Len(history) :
        \A p \in ReadsOf(i) : 0 <= p /\ p < Len(source)

\* a call has read the last byte of a source that ends in '/', half of a
\* comment opener, and left the cursor at the end
C18_Witness ==
    \E i \in 1..Len(history) :
        /\ Len(source) >= 2
        /\ source[Len(source)] = "/"
        /\ (Len(source) - 1) \in ReadsOf(i)
        /\ history[i].after = Len(source)
        /\ history[i].type = "Unexpected"

====
